---- MODULE Spec2Model ----
(***************************************************************************)
(* State-machine model of the electrochromic display driver YNV_ECD        *)
(* (src/src/YnvisibleECD.cpp).  One action per straight-line block of code *)
(* between two reads of m_stopDrivingFlag or two hardware writes, so that  *)
(* an interrupt setting the flag can interleave at every point where the   *)
(* code can observe it, and every intermediate hardware state is visible.  *)
(*                                                                         *)
(* Voltages are integers in tenths of a volt; analog samples and DAC       *)
(* values are integers in 0..ADC_DAC_MAX_LSB.                              *)
(***************************************************************************)
EXTENDS Integers, FiniteSets

\* ------------------------------------------------------------------ bounds
NumSegments == 2
MaxVolts == 12             \* updateSupplyVoltage is called with 1 .. MaxVolts volts

\* --------------------------------------------- constants of YnvisibleECD.h
MAX_REFRESH_RETRIES == 2
ADC_DAC_MAX_LSB == 1023

SEGMENT_STATE_BLEACH == "Bleached"
SEGMENT_STATE_COLOR == "Colored"
SEGMENT_STATE_UNDEFINED == "Undefined"

\* m_cfg: the driving parameters (tenths of a volt)
m_cfg ==
  [ bleachingVoltage           |-> 10,
    coloringVoltage            |-> 15,
    refreshBleachingVoltage    |-> 9,
    refreshColoringVoltage     |-> 14,
    refreshColorLimitHVoltage  |-> 10,
    refreshColorLimitLVoltage  |-> 8,
    refreshBleachLimitHVoltage |-> 6,
    refreshBleachLimitLVoltage |-> 6 ]

\* the supply voltages updateSupplyVoltage is called with (tenths of a volt)
SupplyVoltages == {50, 40}
InitialSupplyVoltage == 50

\* updateSupplyVoltage(int t_supplyVoltage): whole volts, in tenths of a volt
LimitVoltages == {10 * k : k \in 1 .. MaxVolts}

Seg == 0 .. (NumSegments - 1)
SegmentStates == {SEGMENT_STATE_BLEACH, SEGMENT_STATE_COLOR, SEGMENT_STATE_UNDEFINED}

\* ------------------------------------------------------------------- state
VARIABLES
  m_currentState,          \* [Seg -> SegmentStates]
  m_nextState,             \* [Seg -> SegmentStates]
  m_refreshSegmentNeeded,  \* [Seg -> BOOLEAN]
  m_stopDrivingFlag,       \* BOOLEAN
  m_supplyVoltage,
  m_refreshColorLimitH,
  m_refreshColorLimitL,
  m_refreshBleachLimitH,
  m_refreshBleachLimitL,
  pin,                     \* [Seg -> {"INPUT","OUT_LOW","OUT_HIGH"}]: mode and driven level
  counterElectrode,        \* last value of analogWrite(m_counterElectrodePin, .)
  pc,                      \* position of the single thread of control
  i,                       \* loop index of the running loop
  isDelayRequired,         \* local of executeDisplay
  refresh_bleach_needed,   \* locals of refreshDisplay
  refresh_color_needed,
  retries,
  inExec,                  \* refreshDisplay was called from executeDisplay
  beginStage,              \* 0: not in begin(); 1, 2: its first, second executeDisplay
  obs                      \* observer: history of the running / last call

segv == <<m_currentState, m_nextState, m_refreshSegmentNeeded>>
limv == <<m_supplyVoltage, m_refreshColorLimitH, m_refreshColorLimitL,
          m_refreshBleachLimitH, m_refreshBleachLimitL>>
hwv == <<pin, counterElectrode>>
locv == <<i, isDelayRequired, refresh_bleach_needed, refresh_color_needed, retries>>
ctlv == <<inExec, beginStage>>
vars == <<segv, limv, hwv, locv, ctlv, pc, m_stopDrivingFlag, obs>>

\* --------------------------------------------------------- pure operators

\* an updateRefreshLimits that runs before m_supplyVoltage is assigned
ColorLimitHStale(v) ==
  (((m_supplyVoltage - m_cfg.refreshColoringVoltage) + m_cfg.refreshColorLimitHVoltage)
     * ADC_DAC_MAX_LSB) \div m_supplyVoltage

\* updateRefreshLimits: the four limits for supply voltage v
ColorLimitH(v) ==
  (((v - m_cfg.refreshColoringVoltage) + m_cfg.refreshColorLimitHVoltage) * ADC_DAC_MAX_LSB) \div v

\* a mid-rail m_supplyVoltage/2 that is computed in whole volts
ColorLimitLWholeVolts(v) ==
  ((((v \div 20) * 10) + m_cfg.refreshColorLimitLVoltage) * ADC_DAC_MAX_LSB) \div v

ColorLimitL(v) ==
  (((v \div 2) + m_cfg.refreshColorLimitLVoltage) * ADC_DAC_MAX_LSB) \div v
BleachLimitH(v) ==
  (((v \div 2) - m_cfg.refreshBleachLimitHVoltage) * ADC_DAC_MAX_LSB) \div v
BleachLimitL(v) ==
  ((m_cfg.refreshBleachingVoltage - m_cfg.refreshBleachLimitLVoltage) * ADC_DAC_MAX_LSB) \div v

\* enableCounterElectrode: int(ADC_DAC_MAX_LSB * (t_voltage / m_supplyVoltage))
DacValue(t_voltage) == (ADC_DAC_MAX_LSB * t_voltage) \div m_supplyVoltage

\* a digitalWrite that always writes LOW
DriveLevelLow(state) == "OUT_LOW"

\* digitalWrite(pin, state) after pinMode(pin, OUTPUT)
DriveLevel(state) == IF state = SEGMENT_STATE_COLOR THEN "OUT_HIGH" ELSE "OUT_LOW"

\* disableAllSegments: every segment pin to INPUT
AllInput == [s \in Seg |-> "INPUT"]

\* analogRead: the samples that tell the limits apart
Near(l) == {l - 1, l, l + 1}
Samples ==
  ({0, ADC_DAC_MAX_LSB} \cup Near(m_refreshColorLimitH) \cup Near(m_refreshColorLimitL)
     \cup Near(m_refreshBleachLimitH) \cup Near(m_refreshBleachLimitL))
  \cap (0 .. ADC_DAC_MAX_LSB)

\* ---------------------------------------------------------------- observer
NoAbort == [phase |-> "none", idx |-> 0]
\* no updateSupplyVoltage recorded
NoPrev == [v |-> 0, colorH |-> 0, colorL |-> 0, bleachH |-> 0, bleachL |-> 0]

ObsInit ==
  [ aborted       |-> FALSE,      \* the running call returned on the stop flag
    beginAborted  |-> FALSE,      \* some call inside begin() returned on the stop flag
    abortAt       |-> NoAbort,    \* where executeDisplay first observed the flag
    cur0          |-> [s \in Seg |-> SEGMENT_STATE_UNDEFINED], \* m_currentState at call
    bleachDriven  |-> {},         \* segments switched to output in the bleach phase
    colorDriven   |-> {},         \* segments switched to output in the colour phase
    bleachHeld    |-> FALSE,      \* delay(bleachingTime) was issued
    colorHeld     |-> FALSE,      \* delay(coloringTime) was issued
    watch         |-> 0,          \* the segment whose refresh is recorded
    wAboveLow     |-> FALSE,      \* it is Colored, classified with a sample > m_refreshColorLimitL
    wPulses       |-> 0,          \* refresh pulses applied to it in its retry loop
    wCrossed      |-> FALSE,      \* one of its re-samples was inside its limit
    wInRange      |-> FALSE,      \* its latest re-sample in the running loop was inside its limit
    synced        |-> FALSE,      \* last executeDisplay completed, no nextState write since
    idem          |-> FALSE,      \* synced held when the running executeDisplay was called
    passedColored |-> FALSE,      \* every segment was Colored between begin()'s two executes
    calledStopped |-> FALSE,      \* the stop flag was set when the running call was made
    unheld        |-> {},         \* transitioned by the aborted executeDisplay, hold not issued
    missedHold    |-> FALSE,      \* the re-issued executeDisplay left one of them without a hold
    prev          |-> NoPrev ]    \* supply voltage and limits before the last recorded update

\* observer fields reset when a public drive / refresh call starts
ObsCall ==
  [ obs EXCEPT !.aborted = FALSE,
               !.beginAborted = FALSE,
               !.abortAt = NoAbort,
               !.cur0 = m_currentState,
               !.bleachDriven = {},
               !.colorDriven = {},
               !.bleachHeld = FALSE,
               !.colorHeld = FALSE,
               !.watch = 0,
               !.wAboveLow = FALSE,
               !.wPulses = 0,
               !.wCrossed = FALSE,
               !.wInRange = FALSE,
               !.idem = obs.synced,
               !.synced = FALSE,
               !.passedColored = FALSE,
               !.calledStopped = m_stopDrivingFlag,
               !.missedHold = FALSE ]

\* the record of the two drive phases ends where refreshDisplay is called
ObsPhasesOver ==
  [ obs EXCEPT !.abortAt = NoAbort,
               !.cur0 = [s \in Seg |-> SEGMENT_STATE_UNDEFINED],
               !.bleachDriven = {},
               !.colorDriven = {},
               !.bleachHeld = FALSE,
               !.colorHeld = FALSE,
               !.idem = FALSE,
               !.unheld = {},
               !.missedHold =
                 \E s \in obs.unheld :
                   /\ m_currentState[s] = m_nextState[s]
                   /\ ~(s \in obs.bleachDriven /\ obs.bleachHeld)
                   /\ ~(s \in obs.colorDriven /\ obs.colorHeld) ]

\* back at the caller the history of the call is dropped
ObsIdle ==
  [ ObsInit EXCEPT !.synced = obs.synced, !.unheld = obs.unheld ]

\* ---------------------------------------------------------------- Init
\* YNV_ECD::YNV_ECD: pins INPUT, states UNDEFINED; the other members hold
\* their in-class initial values.
Init ==
  /\ m_currentState = [s \in Seg |-> SEGMENT_STATE_UNDEFINED]
  /\ m_nextState = [s \in Seg |-> SEGMENT_STATE_UNDEFINED]
  /\ m_refreshSegmentNeeded = [s \in Seg |-> FALSE]
  /\ m_stopDrivingFlag = FALSE
  /\ m_supplyVoltage = InitialSupplyVoltage
  /\ m_refreshColorLimitH = ColorLimitH(InitialSupplyVoltage)
  /\ m_refreshColorLimitL = ColorLimitL(InitialSupplyVoltage)
  /\ m_refreshBleachLimitH = BleachLimitH(InitialSupplyVoltage)
  /\ m_refreshBleachLimitL = BleachLimitL(InitialSupplyVoltage)
  /\ pin = AllInput
  /\ counterElectrode = 0
  /\ pc = "idle"
  /\ i = 0
  /\ isDelayRequired = FALSE
  /\ refresh_bleach_needed = FALSE
  /\ refresh_color_needed = FALSE
  /\ retries = 0
  /\ inExec = FALSE
  /\ beginStage = 0
  /\ obs = ObsInit


\* ------------------------------------------------- bookkeeping operations

\* a setSegmentState that writes every entry
SetNextStateEvery(t_segment, t_state) == [s \in Seg |-> t_state]

\* the assignment of setSegmentState
SetNextState(t_segment, t_state) == [m_nextState EXCEPT ![t_segment] = t_state]

\* setSegmentState(t_segment, t_state): t_state is a bool, Bleached or Colored
setSegmentState ==
  /\ pc = "idle"
  /\ \E t_segment \in Seg, t_state \in {SEGMENT_STATE_BLEACH, SEGMENT_STATE_COLOR} :
       m_nextState' = SetNextState(t_segment, t_state)
  /\ obs' = [obs EXCEPT !.synced = FALSE, !.unheld = {}]
  /\ UNCHANGED <<m_currentState, m_refreshSegmentNeeded, limv, hwv, locv, ctlv, pc,
                 m_stopDrivingFlag>>

\* the loop of setAllSegmentsBleach
AllBleach == [s \in Seg |-> SEGMENT_STATE_BLEACH]

setAllSegmentsBleach ==
  /\ pc = "idle"
  /\ m_nextState' = AllBleach
  /\ obs' = [obs EXCEPT !.synced = FALSE, !.unheld = {}]
  /\ UNCHANGED <<m_currentState, m_refreshSegmentNeeded, limv, hwv, locv, ctlv, pc,
                 m_stopDrivingFlag>>

updateSupplyVoltage ==
  /\ pc = "idle"
  /\ \E t_supplyVoltage \in SupplyVoltages :
       /\ m_supplyVoltage' = t_supplyVoltage
       /\ m_refreshColorLimitH' = ColorLimitH(t_supplyVoltage)
       /\ m_refreshColorLimitL' = ColorLimitL(t_supplyVoltage)
       /\ m_refreshBleachLimitH' = BleachLimitH(t_supplyVoltage)
       /\ m_refreshBleachLimitL' = BleachLimitL(t_supplyVoltage)
  /\ UNCHANGED <<segv, hwv, locv, ctlv, pc, m_stopDrivingFlag, obs>>

\* updateSupplyVoltage over the whole range of supply voltages, with the
\* voltage and the limits it replaces recorded
updateSupplyVoltage_ranged ==
  /\ pc = "idle"
  /\ \E t_supplyVoltage \in LimitVoltages :
       /\ m_supplyVoltage' = t_supplyVoltage
       /\ m_refreshColorLimitH' = ColorLimitH(t_supplyVoltage)
       /\ m_refreshColorLimitL' = ColorLimitL(t_supplyVoltage)
       /\ m_refreshBleachLimitH' = BleachLimitH(t_supplyVoltage)
       /\ m_refreshBleachLimitL' = BleachLimitL(t_supplyVoltage)
  /\ obs' = [obs EXCEPT !.prev = [v |-> m_supplyVoltage,
                                  colorH |-> m_refreshColorLimitH,
                                  colorL |-> m_refreshColorLimitL,
                                  bleachH |-> m_refreshBleachLimitH,
                                  bleachL |-> m_refreshBleachLimitL]]
  /\ UNCHANGED <<segv, hwv, locv, ctlv, pc, m_stopDrivingFlag>>

\* the flag is set by an external actor (an interrupt) at any point
setStopDrivingFlag ==
  /\ m_stopDrivingFlag' = TRUE
  /\ UNCHANGED <<segv, limv, hwv, locv, ctlv, pc, obs>>

\* the flag is cleared by the caller, between two calls
clearStopDriving ==
  /\ pc = "idle"
  /\ m_stopDrivingFlag' = FALSE
  /\ UNCHANGED <<segv, limv, hwv, locv, ctlv, pc, obs>>

\* ---------------------------------------------------------- executeDisplay

\* a guard that forgets to compare with m_currentState
NeedsTransitionAlways(s, state) == m_nextState[s] = state

\* the condition guarding a transition of segment s in the phase of `state`
NeedsTransition(s, state) ==
  m_nextState[s] # m_currentState[s] /\ m_nextState[s] = state

\* a transition that forgets to record the new state
TransitionedForgotten(s) == m_currentState

\* m_currentState[i] = m_nextState[i]
Transitioned(s) == [m_currentState EXCEPT ![s] = m_nextState[s]]

ObsExecAbort(phase) ==
  [ obs EXCEPT !.aborted = TRUE,
               !.beginAborted = @ \/ (beginStage > 0),
               !.abortAt = IF @ = NoAbort THEN [phase |-> phase, idx |-> i] ELSE @,
               !.unheld = IF phase \in {"bleach", "bleachHold"}
                            THEN obs.bleachDriven ELSE obs.colorDriven ]

\* a loop or hold of executeDisplay reads the flag set
ExecReturnOnStop(phase) ==
  /\ pc' = "E_ret"
  /\ obs' = ObsExecAbort(phase)
  /\ i' = 0
  /\ isDelayRequired' = FALSE
  /\ UNCHANGED <<segv, limv, hwv, refresh_bleach_needed, refresh_color_needed, retries,
                 ctlv, m_stopDrivingFlag>>

\* the call from the caller's thread
executeDisplay_call ==
  /\ pc = "idle"
  /\ pc' = "E_enableBleach"
  /\ obs' = ObsCall
  /\ UNCHANGED <<segv, limv, hwv, locv, inExec, beginStage, m_stopDrivingFlag>>

\* line 74-76
executeDisplay_enableBleach ==
  /\ pc = "E_enableBleach"
  /\ counterElectrode' = DacValue(m_cfg.bleachingVoltage)
  /\ isDelayRequired' = FALSE
  /\ i' = 0
  /\ pc' = "E_bleachLoop"
  /\ UNCHANGED <<segv, limv, pin, refresh_bleach_needed, refresh_color_needed, retries,
                 ctlv, m_stopDrivingFlag, obs>>

\* a bleach loop that reads the flag after the transition instead of before it
executeDisplay_bleachLoopLateCheck ==
  /\ pc = "E_bleachLoop"
  /\ IF NeedsTransition(i, SEGMENT_STATE_BLEACH)
       THEN /\ pin' = [pin EXCEPT ![i] = DriveLevel(m_nextState[i])]
            /\ m_currentState' = Transitioned(i)
       ELSE UNCHANGED <<pin, m_currentState>>
  /\ IF m_stopDrivingFlag
       THEN /\ pc' = "E_ret"
            /\ obs' = [ObsExecAbort("bleach") EXCEPT !.bleachDriven =
                         IF NeedsTransition(i, SEGMENT_STATE_BLEACH) THEN @ \cup {i} ELSE @]
            /\ i' = 0
            /\ isDelayRequired' = FALSE
       ELSE /\ obs' = [obs EXCEPT !.bleachDriven =
                         IF NeedsTransition(i, SEGMENT_STATE_BLEACH) THEN @ \cup {i} ELSE @]
            /\ isDelayRequired' = (isDelayRequired \/ NeedsTransition(i, SEGMENT_STATE_BLEACH))
            /\ i' = i + 1
            /\ pc' = IF i + 1 < NumSegments THEN "E_bleachLoop" ELSE "E_bleachHold"
  /\ UNCHANGED <<m_nextState, m_refreshSegmentNeeded, limv, counterElectrode,
                 refresh_bleach_needed, refresh_color_needed, retries, ctlv,
                 m_stopDrivingFlag>>

\* one iteration of the loop of lines 83-104
executeDisplay_bleachLoop ==
  /\ pc = "E_bleachLoop"
  /\ IF m_stopDrivingFlag
       THEN ExecReturnOnStop("bleach")
       ELSE /\ IF NeedsTransition(i, SEGMENT_STATE_BLEACH)
                 THEN /\ pin' = [pin EXCEPT ![i] = DriveLevel(m_nextState[i])]
                      /\ m_currentState' = Transitioned(i)
                      /\ isDelayRequired' = TRUE
                      /\ obs' = [obs EXCEPT !.bleachDriven = @ \cup {i}]
                 ELSE UNCHANGED <<pin, m_currentState, isDelayRequired, obs>>
            /\ i' = i + 1
            /\ pc' = IF i + 1 < NumSegments THEN "E_bleachLoop" ELSE "E_bleachHold"
            /\ UNCHANGED <<m_nextState, m_refreshSegmentNeeded, limv, counterElectrode,
                           refresh_bleach_needed, refresh_color_needed, retries, ctlv,
                           m_stopDrivingFlag>>

\* lines 105-113
executeDisplay_bleachHold ==
  /\ pc = "E_bleachHold"
  /\ IF isDelayRequired /\ m_stopDrivingFlag
       THEN ExecReturnOnStop("bleachHold")
       ELSE /\ obs' = [obs EXCEPT !.bleachHeld = isDelayRequired]
            /\ pc' = "E_bleachDisable"
            /\ UNCHANGED <<segv, limv, hwv, locv, ctlv, m_stopDrivingFlag>>

\* a bleach phase that ends without disableAllSegments
executeDisplay_bleachDisableSkipped ==
  /\ pc = "E_bleachDisable"
  /\ pc' = "E_enableColor"
  /\ UNCHANGED <<segv, limv, hwv, locv, ctlv, m_stopDrivingFlag, obs>>

\* line 115
executeDisplay_bleachDisable ==
  /\ pc = "E_bleachDisable"
  /\ pin' = AllInput
  /\ pc' = "E_enableColor"
  /\ UNCHANGED <<segv, limv, counterElectrode, locv, ctlv, m_stopDrivingFlag, obs>>

\* lines 118-122
executeDisplay_enableColor ==
  /\ pc = "E_enableColor"
  /\ counterElectrode' = DacValue(m_supplyVoltage - m_cfg.coloringVoltage)
  /\ isDelayRequired' = FALSE
  /\ i' = 0
  /\ pc' = "E_colorLoop"
  /\ UNCHANGED <<segv, limv, pin, refresh_bleach_needed, refresh_color_needed, retries,
                 ctlv, m_stopDrivingFlag, obs>>

\* one iteration of the loop of lines 124-144
executeDisplay_colorLoop ==
  /\ pc = "E_colorLoop"
  /\ IF m_stopDrivingFlag
       THEN ExecReturnOnStop("color")
       ELSE /\ IF NeedsTransition(i, SEGMENT_STATE_COLOR)
                 THEN /\ pin' = [pin EXCEPT ![i] = DriveLevel(m_nextState[i])]
                      /\ m_currentState' = Transitioned(i)
                      /\ isDelayRequired' = TRUE
                      /\ obs' = [obs EXCEPT !.colorDriven = @ \cup {i}]
                 ELSE UNCHANGED <<pin, m_currentState, isDelayRequired, obs>>
            /\ i' = i + 1
            /\ pc' = IF i + 1 < NumSegments THEN "E_colorLoop" ELSE "E_colorHold"
            /\ UNCHANGED <<m_nextState, m_refreshSegmentNeeded, limv, counterElectrode,
                           refresh_bleach_needed, refresh_color_needed, retries, ctlv,
                           m_stopDrivingFlag>>

\* lines 145-153
executeDisplay_colorHold ==
  /\ pc = "E_colorHold"
  /\ IF isDelayRequired /\ m_stopDrivingFlag
       THEN ExecReturnOnStop("colorHold")
       ELSE /\ obs' = [obs EXCEPT !.colorHeld = isDelayRequired]
            /\ pc' = "E_colorDisable"
            /\ UNCHANGED <<segv, limv, hwv, locv, ctlv, m_stopDrivingFlag>>

\* line 154
executeDisplay_colorDisable ==
  /\ pc = "E_colorDisable"
  /\ pin' = AllInput
  /\ pc' = "E_disableCE"
  /\ UNCHANGED <<segv, limv, counterElectrode, locv, ctlv, m_stopDrivingFlag, obs>>

\* lines 156-159: disableCounterElectrode, then the call of refreshDisplay
executeDisplay_disableCE ==
  /\ pc = "E_disableCE"
  /\ counterElectrode' = 0
  /\ inExec' = TRUE
  /\ isDelayRequired' = FALSE
  /\ i' = 0
  /\ pc' = "R_entry"
  /\ obs' = ObsPhasesOver
  /\ UNCHANGED <<segv, limv, pin, refresh_bleach_needed, refresh_color_needed, retries,
                 beginStage, m_stopDrivingFlag>>

\* lines 160-165, after refreshDisplay has returned
executeDisplay_tail ==
  /\ pc = "E_tail"
  /\ pc' = "E_ret"
  /\ inExec' = FALSE
  /\ obs' = IF m_stopDrivingFlag \/ obs.aborted
              THEN [obs EXCEPT !.aborted = TRUE,
                               !.beginAborted = @ \/ (beginStage > 0)]
              ELSE [obs EXCEPT !.synced = TRUE]
  /\ UNCHANGED <<segv, limv, hwv, locv, beginStage, m_stopDrivingFlag>>

\* a return that clears the stop flag for the caller
executeDisplay_returnClears ==
  /\ pc = "E_ret"
  /\ beginStage = 0
  /\ pc' = "idle"
  /\ i' = 0
  /\ isDelayRequired' = FALSE
  /\ m_stopDrivingFlag' = FALSE
  /\ obs' = ObsIdle
  /\ UNCHANGED <<segv, limv, hwv, refresh_bleach_needed, refresh_color_needed, retries,
                 ctlv>>

\* executeDisplay has returned: to the caller, or into begin()
executeDisplay_return ==
  /\ pc = "E_ret"
  /\ beginStage = 0
  /\ pc' = "idle"
  /\ i' = 0
  /\ isDelayRequired' = FALSE
  /\ obs' = ObsIdle
  /\ UNCHANGED <<segv, limv, hwv, refresh_bleach_needed, refresh_color_needed, retries,
                 ctlv, m_stopDrivingFlag>>

\* ---------------------------------------------------------- refreshDisplay

ObsRefAbort ==
  [ obs EXCEPT !.aborted = TRUE,
               !.wInRange = FALSE,
               !.beginAborted = @ \/ (beginStage > 0) ]

\* the locals of refreshDisplay die at its return
RefLocalsDead ==
  /\ i' = 0
  /\ refresh_bleach_needed' = FALSE
  /\ refresh_color_needed' = FALSE
  /\ retries' = 0

\* refreshDisplay reads the flag set and returns
RefReturnOnStop ==
  /\ pc' = "R_ret"
  /\ obs' = ObsRefAbort
  /\ RefLocalsDead
  /\ UNCHANGED <<segv, limv, hwv, isDelayRequired, ctlv, m_stopDrivingFlag>>

\* classification, lines 212-221: the flag written for segment s with sample a
ColorRefreshNeeded(s, a) ==
  m_currentState[s] = SEGMENT_STATE_COLOR /\ a < m_refreshColorLimitL
BleachRefreshNeeded(s, a) ==
  ~ColorRefreshNeeded(s, a)
  /\ m_currentState[s] = SEGMENT_STATE_BLEACH /\ a > m_refreshBleachLimitH

\* lines 276 and 367: the segments a pulse is applied to
BleachPulsed(s) ==
  m_currentState[s] = SEGMENT_STATE_BLEACH /\ m_refreshSegmentNeeded[s]
ColorPulsed(s) ==
  m_currentState[s] = SEGMENT_STATE_COLOR /\ m_refreshSegmentNeeded[s]

\* a re-sample that is not capped by the retry counter
BleachResampledUncapped(s) == m_currentState[s] = SEGMENT_STATE_BLEACH

\* lines 300 and 391: the segments that are sampled again
BleachResampled(s) ==
  m_currentState[s] = SEGMENT_STATE_BLEACH /\ retries < MAX_REFRESH_RETRIES
ColorResampled(s) ==
  m_currentState[s] = SEGMENT_STATE_COLOR /\ retries < MAX_REFRESH_RETRIES

\* the call from the caller's thread
refreshDisplay_call ==
  /\ pc = "idle"
  /\ pc' = "R_entry"
  /\ inExec' = FALSE
  /\ obs' = [ObsCall EXCEPT !.synced = obs.synced, !.idem = FALSE, !.unheld = {}]
  /\ UNCHANGED <<segv, limv, hwv, locv, beginStage, m_stopDrivingFlag>>

\* lines 173-182
refreshDisplay_entry ==
  /\ pc = "R_entry"
  /\ IF m_stopDrivingFlag
       THEN RefReturnOnStop
       ELSE /\ refresh_bleach_needed' = FALSE
            /\ refresh_color_needed' = FALSE
            /\ retries' = 0
            /\ pc' = "R_enableMid"
            /\ \E w \in Seg : obs' = [obs EXCEPT !.watch = w]
            /\ UNCHANGED <<segv, limv, hwv, i, isDelayRequired, ctlv, m_stopDrivingFlag>>

\* line 186
refreshDisplay_enableMid ==
  /\ pc = "R_enableMid"
  /\ counterElectrode' = DacValue(m_supplyVoltage \div 2)
  /\ pc' = "R_disableAll"
  /\ UNCHANGED <<segv, limv, pin, locv, ctlv, m_stopDrivingFlag, obs>>

\* a disableAllSegments that also forgets the segments' states
refreshDisplay_disableAllResets ==
  /\ pc = "R_disableAll"
  /\ pin' = AllInput
  /\ m_currentState' = [s \in Seg |-> SEGMENT_STATE_UNDEFINED]
  /\ i' = 0
  /\ pc' = "R_classify"
  /\ UNCHANGED <<m_nextState, m_refreshSegmentNeeded, limv, counterElectrode,
                 isDelayRequired, refresh_bleach_needed, refresh_color_needed, retries,
                 ctlv, m_stopDrivingFlag, obs>>

\* line 189
refreshDisplay_disableAll ==
  /\ pc = "R_disableAll"
  /\ pin' = AllInput
  /\ i' = 0
  /\ pc' = "R_classify"
  /\ UNCHANGED <<segv, limv, counterElectrode, isDelayRequired, refresh_bleach_needed,
                 refresh_color_needed, retries, ctlv, m_stopDrivingFlag, obs>>

\* one iteration of the loop of lines 199-223
refreshDisplay_classify ==
  /\ pc = "R_classify"
  /\ IF m_stopDrivingFlag
       THEN RefReturnOnStop
       ELSE \E analog_val \in Samples :
            /\ pin' = [pin EXCEPT ![i] = "INPUT"]
            /\ m_refreshSegmentNeeded' =
                 IF ColorRefreshNeeded(i, analog_val) \/ BleachRefreshNeeded(i, analog_val)
                   THEN [m_refreshSegmentNeeded EXCEPT ![i] = TRUE]
                   ELSE m_refreshSegmentNeeded
            /\ refresh_color_needed' =
                 (refresh_color_needed \/ ColorRefreshNeeded(i, analog_val))
            /\ refresh_bleach_needed' =
                 (refresh_bleach_needed \/ BleachRefreshNeeded(i, analog_val))
            /\ obs' = IF i = obs.watch /\ m_currentState[i] = SEGMENT_STATE_COLOR
                           /\ analog_val > m_refreshColorLimitL
                        THEN [obs EXCEPT !.wAboveLow = TRUE] ELSE obs
            /\ i' = i + 1
            /\ pc' = IF i + 1 < NumSegments THEN "R_classify" ELSE "R_check"
            /\ UNCHANGED <<m_currentState, m_nextState, limv, counterElectrode,
                           isDelayRequired, retries, ctlv, m_stopDrivingFlag>>

\* lines 225-233
refreshDisplay_check ==
  /\ pc = "R_check"
  /\ IF m_stopDrivingFlag
       THEN RefReturnOnStop
       ELSE IF ~(refresh_bleach_needed \/ refresh_color_needed)
         THEN /\ pc' = "R_ret"
              /\ RefLocalsDead
              /\ UNCHANGED <<segv, limv, hwv, isDelayRequired, ctlv, m_stopDrivingFlag, obs>>
         ELSE /\ pc' = "R_enableBleach"
              /\ UNCHANGED <<segv, limv, hwv, locv, ctlv, m_stopDrivingFlag, obs>>

\* lines 236-238
refreshDisplay_enableBleach ==
  /\ pc = "R_enableBleach"
  /\ counterElectrode' = DacValue(m_cfg.refreshBleachingVoltage)
  /\ pc' = "R_bleachWhile"
  /\ UNCHANGED <<segv, limv, pin, locv, ctlv, m_stopDrivingFlag, obs>>

\* lines 264-268: the loop condition and the first flag check of the body
refreshDisplay_bleachWhile ==
  /\ pc = "R_bleachWhile"
  /\ IF ~refresh_bleach_needed
       THEN /\ pc' = "R_enableColor"
            /\ UNCHANGED <<segv, limv, hwv, locv, ctlv, m_stopDrivingFlag, obs>>
       ELSE IF m_stopDrivingFlag
         THEN RefReturnOnStop
         ELSE /\ pc' = "R_bleachPulse"
              /\ i' = 0
              /\ UNCHANGED <<segv, limv, hwv, isDelayRequired, refresh_bleach_needed,
                             refresh_color_needed, retries, ctlv, m_stopDrivingFlag, obs>>

\* one iteration of the loop of lines 271-282
refreshDisplay_bleachPulse ==
  /\ pc = "R_bleachPulse"
  /\ IF m_stopDrivingFlag
       THEN RefReturnOnStop
       ELSE /\ IF BleachPulsed(i)
                 THEN /\ pin' = [pin EXCEPT ![i] = "OUT_LOW"]
                      /\ obs' = [obs EXCEPT !.wPulses = IF i = obs.watch THEN @ + 1 ELSE @]
                 ELSE UNCHANGED <<pin, obs>>
            /\ i' = i + 1
            /\ pc' = IF i + 1 < NumSegments THEN "R_bleachPulse" ELSE "R_bleachDelay"
            /\ UNCHANGED <<segv, limv, counterElectrode, isDelayRequired,
                           refresh_bleach_needed, refresh_color_needed, retries, ctlv,
                           m_stopDrivingFlag>>

\* lines 283-291: the pulse time, disableAllSegments, then the flag check
refreshDisplay_bleachDelay ==
  /\ pc = "R_bleachDelay"
  /\ pin' = AllInput
  /\ IF m_stopDrivingFlag
       THEN /\ pc' = "R_ret"
            /\ obs' = ObsRefAbort
            /\ RefLocalsDead
       ELSE /\ pc' = "R_bleachSample"
            /\ refresh_bleach_needed' = FALSE
            /\ i' = 0
            /\ UNCHANGED <<obs, refresh_color_needed, retries>>
  /\ UNCHANGED <<segv, limv, counterElectrode, isDelayRequired, ctlv, m_stopDrivingFlag>>

\* one iteration of the loop of lines 295-314
refreshDisplay_bleachSample ==
  /\ pc = "R_bleachSample"
  /\ IF m_stopDrivingFlag
       THEN RefReturnOnStop
       ELSE /\ IF BleachResampled(i)
                 THEN \E analog_val \in Samples :
                      /\ pin' = [pin EXCEPT ![i] = "INPUT"]
                      /\ IF analog_val > m_refreshBleachLimitL
                           THEN /\ m_refreshSegmentNeeded' =
                                     [m_refreshSegmentNeeded EXCEPT ![i] = TRUE]
                                /\ refresh_bleach_needed' = TRUE
                                /\ obs' = [obs EXCEPT !.wInRange = @ /\ (i # obs.watch)]
                           ELSE /\ obs' = [obs EXCEPT !.wCrossed = @ \/ (i = obs.watch),
                                                      !.wInRange = @ \/ (i = obs.watch)]
                                /\ UNCHANGED <<m_refreshSegmentNeeded, refresh_bleach_needed>>
                 ELSE UNCHANGED <<pin, m_refreshSegmentNeeded, refresh_bleach_needed, obs>>
            /\ i' = i + 1
            /\ pc' = IF i + 1 < NumSegments THEN "R_bleachSample" ELSE "R_bleachRetry"
            /\ UNCHANGED <<m_currentState, m_nextState, limv, counterElectrode,
                           isDelayRequired, refresh_color_needed, retries, ctlv,
                           m_stopDrivingFlag>>

\* lines 315-319
refreshDisplay_bleachRetry ==
  /\ pc = "R_bleachRetry"
  /\ retries' = retries + 1
  /\ pc' = "R_bleachWhile"
  /\ UNCHANGED <<segv, limv, hwv, i, isDelayRequired, refresh_bleach_needed,
                 refresh_color_needed, ctlv, m_stopDrivingFlag, obs>>

\* lines 325-329
refreshDisplay_enableColor ==
  /\ pc = "R_enableColor"
  /\ retries' = 0
  /\ counterElectrode' = DacValue(m_supplyVoltage - m_cfg.refreshColoringVoltage)
  /\ pc' = "R_colorWhile"
  /\ obs' = [obs EXCEPT !.wInRange = FALSE]
  /\ UNCHANGED <<segv, limv, pin, i, isDelayRequired, refresh_bleach_needed,
                 refresh_color_needed, ctlv, m_stopDrivingFlag>>

\* lines 354-358 and, when the loop is over, to line 413
refreshDisplay_colorWhile ==
  /\ pc = "R_colorWhile"
  /\ IF ~refresh_color_needed
       THEN /\ pc' = "R_disableCE"
            /\ UNCHANGED <<segv, limv, hwv, locv, ctlv, m_stopDrivingFlag, obs>>
       ELSE IF m_stopDrivingFlag
         THEN RefReturnOnStop
         ELSE /\ pc' = "R_colorPulse"
              /\ i' = 0
              /\ UNCHANGED <<segv, limv, hwv, isDelayRequired, refresh_bleach_needed,
                             refresh_color_needed, retries, ctlv, m_stopDrivingFlag, obs>>

\* one iteration of the loop of lines 362-373
refreshDisplay_colorPulse ==
  /\ pc = "R_colorPulse"
  /\ IF m_stopDrivingFlag
       THEN RefReturnOnStop
       ELSE /\ IF ColorPulsed(i)
                 THEN /\ pin' = [pin EXCEPT ![i] = "OUT_HIGH"]
                      /\ obs' = [obs EXCEPT !.wPulses = IF i = obs.watch THEN @ + 1 ELSE @]
                 ELSE UNCHANGED <<pin, obs>>
            /\ i' = i + 1
            /\ pc' = IF i + 1 < NumSegments THEN "R_colorPulse" ELSE "R_colorDelay"
            /\ UNCHANGED <<segv, limv, counterElectrode, isDelayRequired,
                           refresh_bleach_needed, refresh_color_needed, retries, ctlv,
                           m_stopDrivingFlag>>

\* lines 376-382: the pulse time, the flag check, then disableAllSegments
refreshDisplay_colorDelay ==
  /\ pc = "R_colorDelay"
  /\ IF m_stopDrivingFlag
       THEN RefReturnOnStop
       ELSE /\ pin' = AllInput
            /\ refresh_color_needed' = FALSE
            /\ pc' = "R_colorSample"
            /\ i' = 0
            /\ UNCHANGED <<segv, limv, counterElectrode, isDelayRequired,
                           refresh_bleach_needed, retries, ctlv, m_stopDrivingFlag, obs>>

\* one iteration of the loop of lines 386-405; currentLimit is m_refreshColorLimitH
refreshDisplay_colorSample ==
  /\ pc = "R_colorSample"
  /\ IF m_stopDrivingFlag
       THEN RefReturnOnStop
       ELSE /\ IF ColorResampled(i)
                 THEN \E analog_val \in Samples :
                      /\ pin' = [pin EXCEPT ![i] = "INPUT"]
                      /\ IF analog_val < m_refreshColorLimitH
                           THEN /\ m_refreshSegmentNeeded' =
                                     [m_refreshSegmentNeeded EXCEPT ![i] = TRUE]
                                /\ refresh_color_needed' = TRUE
                                /\ obs' = [obs EXCEPT !.wInRange = @ /\ (i # obs.watch)]
                           ELSE /\ obs' = [obs EXCEPT !.wCrossed = @ \/ (i = obs.watch),
                                                      !.wInRange = @ \/ (i = obs.watch)]
                                /\ UNCHANGED <<m_refreshSegmentNeeded, refresh_color_needed>>
                 ELSE UNCHANGED <<pin, m_refreshSegmentNeeded, refresh_color_needed, obs>>
            /\ i' = i + 1
            /\ pc' = IF i + 1 < NumSegments THEN "R_colorSample" ELSE "R_colorRetry"
            /\ UNCHANGED <<m_currentState, m_nextState, limv, counterElectrode,
                           isDelayRequired, refresh_bleach_needed, retries, ctlv,
                           m_stopDrivingFlag>>

\* lines 406-410
refreshDisplay_colorRetry ==
  /\ pc = "R_colorRetry"
  /\ retries' = retries + 1
  /\ pc' = "R_colorWhile"
  /\ UNCHANGED <<segv, limv, hwv, i, isDelayRequired, refresh_bleach_needed,
                 refresh_color_needed, ctlv, m_stopDrivingFlag, obs>>

\* lines 413-415
refreshDisplay_disableCE ==
  /\ pc = "R_disableCE"
  /\ counterElectrode' = 0
  /\ pc' = "R_ret"
  /\ RefLocalsDead
  /\ obs' = [obs EXCEPT !.wInRange = FALSE]
  /\ UNCHANGED <<segv, limv, pin, isDelayRequired, ctlv, m_stopDrivingFlag>>

\* refreshDisplay has returned: to the caller, or to line 160 of executeDisplay
refreshDisplay_return ==
  /\ pc = "R_ret"
  /\ pc' = IF inExec THEN "E_tail" ELSE "idle"
  /\ obs' = IF inExec THEN obs ELSE ObsIdle
  /\ RefLocalsDead
  /\ UNCHANGED <<segv, limv, hwv, isDelayRequired, ctlv, m_stopDrivingFlag>>

\* ------------------------------------------------------------------- begin

\* a begin() whose first loop passes false
BeginColorAllFalse == [s \in Seg |-> SEGMENT_STATE_BLEACH]

\* lines 45-47 and 51-53: the two loops of setSegmentState
BeginColorAll == [s \in Seg |-> SEGMENT_STATE_COLOR]
BeginBleachAll == [s \in Seg |-> SEGMENT_STATE_BLEACH]

\* lines 44-48
begin_call ==
  /\ pc = "idle"
  /\ m_nextState' = BeginColorAll
  /\ beginStage' = 1
  /\ pc' = "E_enableBleach"
  /\ obs' = [ObsCall EXCEPT !.idem = FALSE, !.unheld = {}]
  /\ UNCHANGED <<m_currentState, m_refreshSegmentNeeded, limv, hwv, locv, inExec,
                 m_stopDrivingFlag>>

\* lines 50-54, after the first executeDisplay has returned
begin_second ==
  /\ pc = "E_ret"
  /\ beginStage = 1
  /\ m_nextState' = BeginBleachAll
  /\ beginStage' = 2
  /\ pc' = "E_enableBleach"
  /\ obs' = [ObsCall EXCEPT
               !.idem = FALSE,
               !.unheld = {},
               !.beginAborted = obs.beginAborted,
               !.passedColored = (\A s \in Seg : m_currentState[s] = SEGMENT_STATE_COLOR)]
  /\ UNCHANGED <<m_currentState, m_refreshSegmentNeeded, limv, hwv, locv, inExec,
                 m_stopDrivingFlag>>

\* line 56, after the second executeDisplay has returned
begin_return ==
  /\ pc = "E_ret"
  /\ beginStage = 2
  /\ beginStage' = 0
  /\ pc' = "B_ret"
  /\ i' = 0
  /\ isDelayRequired' = FALSE
  /\ UNCHANGED <<segv, limv, hwv, refresh_bleach_needed, refresh_color_needed, retries,
                 inExec, m_stopDrivingFlag, obs>>

begin_done ==
  /\ pc = "B_ret"
  /\ pc' = "idle"
  /\ obs' = ObsIdle
  /\ UNCHANGED <<segv, limv, hwv, locv, ctlv, m_stopDrivingFlag>>

\* ------------------------------------------------------------ specification
Next ==
  \/ setSegmentState
  \/ setAllSegmentsBleach
  \/ updateSupplyVoltage
  \/ setStopDrivingFlag
  \/ clearStopDriving
  \/ executeDisplay_call
  \/ executeDisplay_enableBleach
  \/ executeDisplay_bleachLoop
  \/ executeDisplay_bleachHold
  \/ executeDisplay_bleachDisable
  \/ executeDisplay_enableColor
  \/ executeDisplay_colorLoop
  \/ executeDisplay_colorHold
  \/ executeDisplay_colorDisable
  \/ executeDisplay_disableCE
  \/ executeDisplay_tail
  \/ executeDisplay_return
  \/ refreshDisplay_call
  \/ refreshDisplay_entry
  \/ refreshDisplay_enableMid
  \/ refreshDisplay_disableAll
  \/ refreshDisplay_classify
  \/ refreshDisplay_check
  \/ refreshDisplay_enableBleach
  \/ refreshDisplay_bleachWhile
  \/ refreshDisplay_bleachPulse
  \/ refreshDisplay_bleachDelay
  \/ refreshDisplay_bleachSample
  \/ refreshDisplay_bleachRetry
  \/ refreshDisplay_enableColor
  \/ refreshDisplay_colorWhile
  \/ refreshDisplay_colorPulse
  \/ refreshDisplay_colorDelay
  \/ refreshDisplay_colorSample
  \/ refreshDisplay_colorRetry
  \/ refreshDisplay_disableCE
  \/ refreshDisplay_return
  \/ begin_call
  \/ begin_second
  \/ begin_return
  \/ begin_done

Spec == Init /\ [][Next]_vars

\* the steps of a running refreshDisplay, up to its return statement
RefreshStep ==
  \/ refreshDisplay_entry
  \/ refreshDisplay_enableMid
  \/ refreshDisplay_disableAll
  \/ refreshDisplay_classify
  \/ refreshDisplay_check
  \/ refreshDisplay_enableBleach
  \/ refreshDisplay_bleachWhile
  \/ refreshDisplay_bleachPulse
  \/ refreshDisplay_bleachDelay
  \/ refreshDisplay_bleachSample
  \/ refreshDisplay_bleachRetry
  \/ refreshDisplay_enableColor
  \/ refreshDisplay_colorWhile
  \/ refreshDisplay_colorPulse
  \/ refreshDisplay_colorDelay
  \/ refreshDisplay_colorSample
  \/ refreshDisplay_colorRetry
  \/ refreshDisplay_disableCE

\* the driver under calls of updateSupplyVoltage only
LimitNext == updateSupplyVoltage_ranged
LimitSpec == Init /\ [][LimitNext]_vars

\* the processor keeps executing a refreshDisplay that was called: delay(),
\* analogRead() and the pin writes all return
FairSpec == Spec /\ WF_vars(RefreshStep)

TypeOK ==
  /\ m_currentState \in [Seg -> SegmentStates]
  /\ m_nextState \in [Seg -> SegmentStates]
  /\ m_refreshSegmentNeeded \in [Seg -> BOOLEAN]
  /\ m_stopDrivingFlag \in BOOLEAN
  /\ m_supplyVoltage \in SupplyVoltages
  /\ pin \in [Seg -> {"INPUT", "OUT_LOW", "OUT_HIGH"}]
  /\ counterElectrode \in 0 .. ADC_DAC_MAX_LSB
  /\ i \in 0 .. NumSegments
  /\ retries \in 0 .. (MAX_REFRESH_RETRIES + 1)
  /\ beginStage \in 0 .. 2

\* ------------------------------------------------------------------ claims

StateSet == {SEGMENT_STATE_BLEACH, SEGMENT_STATE_COLOR}

\* the positions inside the bleach and colour phases of executeDisplay
PhasePcs ==
  {"E_enableBleach", "E_bleachLoop", "E_bleachHold", "E_bleachDisable",
   "E_enableColor", "E_colorLoop", "E_colorHold", "E_colorDisable", "E_disableCE"}

\* the segments the running executeDisplay switched to output
Driven == obs.bleachDriven \cup obs.colorDriven

\* C1: when executeDisplay has returned without an abort, every segment whose
\* nextState is Bleached or Colored has currentState equal to nextState.
C1_ExecuteReachesNextState ==
  (pc = "E_ret" /\ ~obs.aborted) =>
    \A s \in Seg : m_nextState[s] \in StateSet => m_currentState[s] = m_nextState[s]

C1_Witness ==
  /\ pc = "E_ret" /\ ~obs.aborted /\ beginStage = 0
  /\ m_currentState[0] = SEGMENT_STATE_COLOR
  /\ m_currentState[1] = SEGMENT_STATE_BLEACH

\* C2: when executeDisplay returns because a segment loop or a hold read the
\* stop flag at index k, no segment at or after k was transitioned or switched
\* to output in that phase, no segment was in a later phase, and every segment
\* that was switched to output has currentState equal to nextState.
C2_AbortKeepsRest ==
  (pc = "E_ret" /\ obs.abortAt # NoAbort) =>
    LET k == obs.abortAt.idx
        inBleach == obs.abortAt.phase \in {"bleach", "bleachHold"}
    IN /\ \A s \in Seg : s >= k =>
            /\ s \notin obs.colorDriven
            /\ inBleach => s \notin obs.bleachDriven
            /\ m_currentState[s] # obs.cur0[s] => (~inBleach /\ s \in obs.bleachDriven)
       /\ inBleach => obs.colorDriven = {}
       /\ \A s \in Seg : m_currentState[s] # obs.cur0[s] => s \in Driven
       /\ \A s \in Driven : m_currentState[s] = m_nextState[s]

C2_Witness ==
  /\ pc = "E_ret"
  /\ obs.abortAt = [phase |-> "bleach", idx |-> 1]
  /\ obs.bleachDriven = {0}
  /\ m_currentState[0] = m_nextState[0]
  /\ m_nextState[1] = SEGMENT_STATE_BLEACH
  /\ m_currentState[1] # SEGMENT_STATE_BLEACH

\* the positions of the two retry loops of refreshDisplay where pins are driven
PulsePcs == {"R_bleachPulse", "R_bleachDelay", "R_colorPulse", "R_colorDelay"}

\* C3: in a refreshDisplay that returned without an abort, a segment that was
\* pulsed and whose re-samples never were inside its limit was pulsed exactly
\* MAX_REFRESH_RETRIES times, and no pin is driven by a retry loop once the
\* retry counter has reached MAX_REFRESH_RETRIES.
C3_PulsedExactlyMaxRetries ==
  /\ (pc = "R_ret" /\ ~obs.aborted /\ obs.wPulses > 0 /\ ~obs.wCrossed) =>
       obs.wPulses = MAX_REFRESH_RETRIES
  /\ (pc \in PulsePcs /\ \E s \in Seg : pin[s] # "INPUT") =>
       retries < MAX_REFRESH_RETRIES

\* C4: in a refreshDisplay, a Colored segment whose classification sample was
\* above m_refreshColorLimitL is never driven HIGH by a colour-refresh pulse.
C4_InRangeColoredNotPulsed ==
  obs.wAboveLow => pin[obs.watch] # "OUT_HIGH"

\* C5: an executeDisplay called after a completed executeDisplay, with no
\* write of nextState in between, switches no pin to output in its bleach and
\* colour phases, changes no currentState and issues no hold.
C5_SecondExecuteIdle ==
  obs.idem =>
    /\ Driven = {}
    /\ m_currentState = obs.cur0
    /\ ~obs.bleachHeld
    /\ ~obs.colorHeld
    /\ ~isDelayRequired

C5_Witness ==
  /\ pc = "E_disableCE"
  /\ obs.idem
  /\ beginStage = 0
  /\ m_currentState[0] = SEGMENT_STATE_COLOR
  /\ m_currentState[1] = SEGMENT_STATE_BLEACH

\* C6: when begin() has returned without an abort, every segment has
\* currentState and nextState Bleached, and every segment was Colored after
\* the first executeDisplay of begin().
C6_BeginBleachesAll ==
  (pc = "B_ret" /\ ~obs.beginAborted) =>
    /\ \A s \in Seg : m_currentState[s] = SEGMENT_STATE_BLEACH
    /\ \A s \in Seg : m_nextState[s] = SEGMENT_STATE_BLEACH
    /\ obs.passedColored

C6_Witness ==
  /\ pc = "B_ret" /\ ~obs.beginAborted
  /\ obs.passedColored
  /\ \A s \in Seg : m_currentState[s] = SEGMENT_STATE_BLEACH

\* C7: whenever refreshDisplay, and so executeDisplay, has returned without an
\* abort, the counter electrode output is 0.
C7_CounterElectrodeOffAtReturn ==
  (pc \in {"R_ret", "E_ret"} /\ ~obs.aborted) => counterElectrode = 0

\* C8: when executeDisplay or refreshDisplay has returned on the stop flag,
\* every pin the call switched to output is an input again.
C8_AbortFloatsPins ==
  /\ (pc = "E_ret" /\ obs.aborted) => \A s \in Driven : pin[s] = "INPUT"
  /\ (pc = "R_ret" /\ obs.aborted /\ obs.wPulses > 0) => pin[obs.watch] = "INPUT"

\* the one segment that differs at the call and is to be Colored, if there is one
OnlyColorChange(k) ==
  /\ pc \in PhasePcs
  /\ beginStage = 0
  /\ {s \in Seg : m_nextState[s] # obs.cur0[s]} = {k}
  /\ m_nextState[k] = SEGMENT_STATE_COLOR

\* C9: when k is the only segment with nextState # currentState at the call of
\* executeDisplay, and its nextState is Colored, then in the bleach and colour
\* phases only k is switched to output, in the colour phase only; it is driven
\* HIGH during the coloringTime hold, and no other segment's currentState or
\* floated pin changes.
C9_SingleColorTransition ==
  \A k \in Seg : OnlyColorChange(k) =>
    /\ obs.bleachDriven = {}
    /\ ~obs.bleachHeld
    /\ obs.colorDriven \subseteq {k}
    /\ \A s \in Seg \ {k} : m_currentState[s] = obs.cur0[s]
    /\ pc \in {"E_enableColor", "E_colorLoop", "E_colorHold", "E_colorDisable"} =>
         \A s \in Seg \ {k} : pin[s] = "INPUT"
    /\ pc \in {"E_colorHold", "E_colorDisable"} =>
         /\ obs.colorDriven = {k}
         /\ pin[k] = "OUT_HIGH"
         /\ m_currentState[k] = SEGMENT_STATE_COLOR
    /\ pc = "E_colorDisable" => obs.colorHeld
    /\ pc = "E_disableCE" =>
         /\ obs.colorHeld
         /\ \A s \in Seg : pin[s] = "INPUT"

C9_Witness ==
  /\ OnlyColorChange(1)
  /\ pc = "E_colorDisable"
  /\ obs.colorHeld
  /\ pin[1] = "OUT_HIGH"
  /\ m_currentState[0] = SEGMENT_STATE_BLEACH

\* C10: every setSegmentState step changes at most the one entry of nextState
\* it names, and every setAllSegmentsBleach step sets every entry of nextState
\* to Bleached; both leave currentState, the refreshNeeded flags, the stop
\* flag, the supply voltage, the limits, the pins and the counter electrode
\* unchanged, and neither starts a call (the driver stays idle).
C10_SetOnlyWritesNextState ==
  [][ (setSegmentState \/ setAllSegmentsBleach) =>
        /\ UNCHANGED <<m_currentState, m_refreshSegmentNeeded, m_stopDrivingFlag,
                       limv, pin, counterElectrode>>
        /\ pc' = "idle" /\ UNCHANGED ctlv
        /\ \/ setAllSegmentsBleach /\ m_nextState' = [s \in Seg |-> SEGMENT_STATE_BLEACH]
           \/ \E t \in Seg : \A s \in Seg \ {t} : m_nextState'[s] = m_nextState[s] ]_vars

C10_Witness ==
  /\ pc = "idle"
  /\ m_nextState[1] = SEGMENT_STATE_COLOR
  /\ m_nextState[0] = SEGMENT_STATE_UNDEFINED
  /\ m_currentState[1] = SEGMENT_STATE_UNDEFINED

\* the positions inside the two retry loops of refreshDisplay
RetryLoopPcs ==
  {"R_bleachWhile", "R_bleachPulse", "R_bleachDelay", "R_bleachSample", "R_bleachRetry",
   "R_colorWhile", "R_colorPulse", "R_colorDelay", "R_colorSample", "R_colorRetry"}

\* C11: every refreshDisplay that is entered reaches its return, and the number
\* of iterations of each retry loop (the value of retries, one increment per
\* iteration) never exceeds MAX_REFRESH_RETRIES + 1: an iteration only starts
\* while retries <= MAX_REFRESH_RETRIES, whatever the samples are.
C11_RefreshTerminates ==
  /\ [](pc \in RetryLoopPcs => retries <= MAX_REFRESH_RETRIES + 1)
  /\ [](pc \in RetryLoopPcs \ {"R_bleachWhile", "R_colorWhile"} =>
         retries <= MAX_REFRESH_RETRIES)
  /\ (pc = "R_entry") ~> (pc = "R_ret")

C11_Witness ==
  /\ pc = "R_colorWhile"
  /\ retries = MAX_REFRESH_RETRIES + 1
  /\ ~obs.wCrossed
  /\ obs.wPulses = MAX_REFRESH_RETRIES + 1
  /\ m_currentState[obs.watch] = SEGMENT_STATE_COLOR

\* the four limits are the formulas of updateRefreshLimits at supply voltage v
LimitsAt(v, ch, cl, bh, bl) ==
  /\ ch = (((v - m_cfg.refreshColoringVoltage) + m_cfg.refreshColorLimitHVoltage)
             * ADC_DAC_MAX_LSB) \div v
  /\ cl = (((v \div 2) + m_cfg.refreshColorLimitLVoltage) * ADC_DAC_MAX_LSB) \div v
  /\ bh = (((v \div 2) - m_cfg.refreshBleachLimitHVoltage) * ADC_DAC_MAX_LSB) \div v
  /\ bl = ((m_cfg.refreshBleachingVoltage - m_cfg.refreshBleachLimitLVoltage)
             * ADC_DAC_MAX_LSB) \div v

C13_LimitsMonotone ==
  /\ (obs.prev.v # 0 /\ obs.prev.v < m_supplyVoltage) =>
       /\ obs.prev.colorH <= m_refreshColorLimitH
       /\ obs.prev.colorL >= m_refreshColorLimitL
       /\ obs.prev.bleachH <= m_refreshBleachLimitH
       /\ obs.prev.bleachL >= m_refreshBleachLimitL
  /\ (obs.prev.v # 0 /\ obs.prev.v > m_supplyVoltage) =>
       /\ obs.prev.colorH >= m_refreshColorLimitH
       /\ obs.prev.colorL <= m_refreshColorLimitL
       /\ obs.prev.bleachH >= m_refreshBleachLimitH
       /\ obs.prev.bleachL <= m_refreshBleachLimitL

C13_Witness ==
  /\ obs.prev.v = 50
  /\ m_supplyVoltage = 60
  /\ obs.prev.colorH < m_refreshColorLimitH
  /\ obs.prev.colorL > m_refreshColorLimitL
  /\ obs.prev.bleachH < m_refreshBleachLimitH
  /\ obs.prev.bleachL > m_refreshBleachLimitL

\* C14: in the retry loops of refreshDisplay, a segment whose latest
\* re-sample was inside its limit is not flagged refreshNeeded and its pin is
\* not driven by a pulse of that loop.
C14_InRangeResampleUnflags ==
  (pc \in RetryLoopPcs /\ obs.wInRange) =>
    /\ ~m_refreshSegmentNeeded[obs.watch]
    /\ pin[obs.watch] = "INPUT"

\* C15: in executeDisplay, while the bleach phase runs the counter electrode
\* is at bleachingVoltage and no segment has been driven to the colour level;
\* when the colour phase begins every bleach transition is done, its hold was
\* issued and all pins are floated; in the colour phase the counter electrode
\* is at supplyVoltage - coloringVoltage and the only driven pins are the
\* colour transitions; when refreshDisplay is entered from executeDisplay all
\* pins are floated and the counter electrode is disabled.
C15_BleachBeforeColor ==
  /\ pc \in {"E_bleachLoop", "E_bleachHold", "E_bleachDisable"} =>
       /\ counterElectrode = DacValue(m_cfg.bleachingVoltage)
       /\ obs.colorDriven = {}
       /\ ~obs.colorHeld
       /\ \A s \in obs.bleachDriven : pin[s] = "OUT_LOW"
  /\ pc = "E_enableColor" =>
       /\ \A s \in Seg : pin[s] = "INPUT"
       /\ \A s \in Seg : ~NeedsTransition(s, SEGMENT_STATE_BLEACH)
       /\ obs.bleachHeld = (obs.bleachDriven # {})
       /\ obs.colorDriven = {}
  /\ pc \in {"E_colorLoop", "E_colorHold", "E_colorDisable"} =>
       /\ counterElectrode = DacValue(m_supplyVoltage - m_cfg.coloringVoltage)
       /\ obs.bleachHeld = (obs.bleachDriven # {})
       /\ \A s \in Seg : pin[s] = IF s \in obs.colorDriven THEN "OUT_HIGH" ELSE "INPUT"
  /\ pc = "E_disableCE" =>
       /\ \A s \in Seg : pin[s] = "INPUT"
       /\ obs.colorHeld = (obs.colorDriven # {})
  /\ (pc = "R_entry" /\ inExec) =>
       /\ \A s \in Seg : pin[s] = "INPUT"
       /\ counterElectrode = 0

C15_Witness ==
  /\ pc = "E_colorDisable"
  /\ obs.bleachDriven = {0}
  /\ obs.bleachHeld
  /\ obs.colorDriven = {1}
  /\ obs.colorHeld
  /\ pin[1] = "OUT_HIGH"

\* C16: no step of an executeDisplay or refreshDisplay that was called with
\* the stop flag set changes a currentState, a segment pin or the counter
\* electrode output.
C16_StoppedCallChangesNothing ==
  [][ (pc # "idle" /\ obs.calledStopped) =>
        UNCHANGED <<m_currentState, pin, counterElectrode>> ]_vars

\* C17: no step of refreshDisplay, on any path, changes m_currentState or
\* m_nextState (nor the stop flag, the supply voltage or the limits): it
\* writes only the refreshNeeded flags, the pins and the counter electrode.
C17_RefreshKeepsStates ==
  [][ (RefreshStep \/ refreshDisplay_return) =>
        UNCHANGED <<m_currentState, m_nextState, m_stopDrivingFlag, limv>> ]_vars

C17_Witness ==
  /\ pc = "R_ret"
  /\ ~inExec
  /\ ~obs.aborted
  /\ obs.wPulses = MAX_REFRESH_RETRIES + 1
  /\ m_currentState[0] = SEGMENT_STATE_COLOR
  /\ m_currentState[1] = SEGMENT_STATE_BLEACH
  /\ m_nextState[0] = SEGMENT_STATE_BLEACH
  /\ m_nextState[1] = SEGMENT_STATE_COLOR

\* the counter electrode outputs of the bleach and of the colour drives, at
\* any of the supply voltages
BleachLevels ==
  {(ADC_DAC_MAX_LSB * t_voltage) \div v :
     t_voltage \in {m_cfg.bleachingVoltage, m_cfg.refreshBleachingVoltage},
     v \in SupplyVoltages}
ColorLevels ==
  {(ADC_DAC_MAX_LSB * (v - t_voltage)) \div v :
     t_voltage \in {m_cfg.coloringVoltage, m_cfg.refreshColoringVoltage},
     v \in SupplyVoltages}

\* C18: in every state a pin that is an output at LOW coexists with a counter
\* electrode at bleachingVoltage or refreshBleachingVoltage, and a pin that is
\* an output at HIGH with a counter electrode at supplyVoltage - coloringVoltage
\* or supplyVoltage - refreshColoringVoltage.
C18_PinMatchesCounterElectrode ==
  \A s \in Seg :
    /\ pin[s] = "OUT_LOW" => counterElectrode \in BleachLevels
    /\ pin[s] = "OUT_HIGH" => counterElectrode \in ColorLevels

\* C19: when an executeDisplay that was called after an aborted
\* executeDisplay, with no write of nextState in between, has returned without
\* an abort, no segment that the aborted call transitioned has currentState =
\* nextState without a hold issued while it was driven, in either call.
C19_ResumedCallHoldsAll ==
  (pc = "E_ret" /\ ~obs.aborted) => ~obs.missedHold

\* C20: only setStopDrivingFlag and clearStopDriving steps change the stop
\* flag; no step taken while the flag is set changes a currentState or
\* switches a pin to output; and every executeDisplay or refreshDisplay that
\* was called with the flag set, the second executeDisplay of begin()
\* included, returns aborted.
C20_FlagOnlySetAndCleared ==
  /\ [][ m_stopDrivingFlag' # m_stopDrivingFlag =>
           (setStopDrivingFlag \/ clearStopDriving) ]_vars
  /\ [][ m_stopDrivingFlag =>
           /\ m_currentState' = m_currentState
           /\ \A s \in Seg : pin'[s] # "INPUT" => pin'[s] = pin[s] ]_vars
  /\ []((pc \in {"E_ret", "R_ret"} /\ obs.calledStopped) => obs.aborted)

C20_Witness ==
  /\ pc = "E_ret"
  /\ beginStage = 2
  /\ obs.calledStopped
  /\ obs.aborted
  /\ m_stopDrivingFlag
  /\ \A s \in Seg : m_currentState[s] = SEGMENT_STATE_COLOR
  /\ \A s \in Seg : m_nextState[s] = SEGMENT_STATE_BLEACH

====
